---- MODULE Spec2Model ----
(***************************************************************************)
(* Model of the Briefly conversation summarizer bot: the per-channel       *)
(* message cache (bot.py), the truncation policy and the summarization     *)
(* client (summarizer.py).                                                 *)
(*                                                                         *)
(* Strings are sequences of one-character strings, so that len(), strip()  *)
(* and the f-string renderings are computed, not assumed.                  *)
(* Optional[str] is a record [none, s]: None is [none |-> TRUE].           *)
(*                                                                         *)
(* Every event handler is a coroutine of one event loop: a step of the     *)
(* model is the code a handler runs between two awaits that suspend it     *)
(* (ctx.send, channel.history, run_in_executor, loading_msg.edit).         *)
(***************************************************************************)
EXTENDS Integers, Sequences, FiniteSets, TLC

(* ------------------------------ bounds --------------------------------- *)
\* number of message-arrived events in one behaviour with commands
MaxEvents == 3
\* largest configured MAX_MESSAGES_TO_SUMMARIZE drawn in a behaviour with commands
MaxNmax == 1
\* number of message-arrived events in one behaviour without commands
MaxCacheEvents == 4
\* largest configured MAX_MESSAGES_TO_SUMMARIZE drawn in a behaviour without commands
MaxCacheNmax == 3
\* command invocations that may be in flight at once
MaxTasks == 1
\* longest message list given to truncate_conversation on its own
MaxLen == 3
\* largest character budget given to truncate_conversation on its own
MaxChars == 16

(* ------------------------- configuration ------------------------------- *)
\* Config.MAX_MESSAGE_LENGTH: the character budget of a conversation
MAX_MESSAGE_LENGTH == 12
\* default of the limit parameter of the summarize command
DEFAULT_LIMIT == 20

(* ------------------------------ strings -------------------------------- *)
Whitespace == {" ", "\n", "\t"}

RECURSIVE lstrip(_)
lstrip(s) ==
    IF s # <<>> /\ Head(s) \in Whitespace THEN lstrip(Tail(s)) ELSE s

RECURSIVE rstrip(_)
rstrip(s) ==
    IF s # <<>> /\ s[Len(s)] \in Whitespace
    THEN rstrip(SubSeq(s, 1, Len(s) - 1)) ELSE s

\* str.strip()
strip(s) == rstrip(lstrip(s))

\* Optional[str]
NoneVal == [none |-> TRUE, s |-> <<>>]
Some(s) == [none |-> FALSE, s |-> s]
\* Python truthiness of an Optional[str]
Truthy(o) == ~o.none /\ o.s # <<>>

(* --------------------------- truncation -------------------------------- *)
\* f"{author}: {content}\n"
msg_content(msg) == msg.author \o <<":", " ">> \o msg.content \o <<"\n">>

msg_length(msg) == Len(msg_content(msg))

\* variant of Fits: a strict comparison
Fits_lt(current_length, length, max_length) ==
    current_length + length < max_length

\* variant of Fits: the length accumulated so far is not counted
Fits_noacc(current_length, length, max_length) ==
    length <= max_length

\* the test of line 138
Fits(current_length, length, max_length) ==
    current_length + length <= max_length

\* variant of insert0: the message is put at the end
insert0_append(truncated, msg) == Append(truncated, msg)

\* truncated_messages.insert(0, msg)
insert0(truncated, msg) == <<msg>> \o truncated

\* variant of truncate_loop: a message that does not fit is passed over
RECURSIVE truncate_loop_skip(_, _, _, _, _)
truncate_loop_skip(messages, i, truncated_messages, current_length, max_length) ==
    IF i = 0 THEN truncated_messages
    ELSE LET msg == messages[i]
             length == msg_length(msg)
         IN  IF Fits(current_length, length, max_length)
             THEN truncate_loop_skip(messages, i - 1,
                                     insert0(truncated_messages, msg),
                                     current_length + length, max_length)
             ELSE truncate_loop_skip(messages, i - 1, truncated_messages,
                                     current_length, max_length)

\* the loop over reversed(messages): i is the index of the next message
RECURSIVE truncate_loop(_, _, _, _, _)
truncate_loop(messages, i, truncated_messages, current_length, max_length) ==
    IF i = 0 THEN truncated_messages
    ELSE LET msg == messages[i]
             length == msg_length(msg)
         IN  IF Fits(current_length, length, max_length)
             THEN truncate_loop(messages, i - 1,
                                insert0(truncated_messages, msg),
                                current_length + length, max_length)
             ELSE truncated_messages

truncate_conversation(messages, max_length) ==
    truncate_loop(messages, Len(messages), <<>>, 0, max_length)

\* total serialized length of a message list
RECURSIVE SerializedLength(_)
SerializedLength(msgs) ==
    IF msgs = <<>> THEN 0
    ELSE msg_length(Head(msgs)) + SerializedLength(Tail(msgs))

\* s is a contiguous suffix of msgs
IsSuffix(s, msgs) ==
    /\ Len(s) <= Len(msgs)
    /\ s = SubSeq(msgs, Len(msgs) - Len(s) + 1, Len(msgs))


(* ------------------------ summarization client ------------------------- *)
\* "No messages to summarize."
NO_MESSAGES_NOTICE ==
    <<"N","o"," ","m","e","s","s","a","g","e","s"," ","t","o"," ",
      "s","u","m","m","a","r","i","z","e",".">>

\* variant of formatted_messages: a message with blank content gives a line
RECURSIVE formatted_messages_noskip(_)
formatted_messages_noskip(messages) ==
    IF messages = <<>> THEN <<>>
    ELSE LET msg == Head(messages)
         IN  <<msg.author \o <<":", " ">> \o strip(msg.content)>>
                 \o formatted_messages_noskip(Tail(messages))

\* f"{author}: {content}" for the messages whose stripped content is non-empty
RECURSIVE formatted_messages(_)
formatted_messages(messages) ==
    IF messages = <<>> THEN <<>>
    ELSE LET msg == Head(messages)
             content == strip(msg.content)
         IN  IF content # <<>>
             THEN <<msg.author \o <<":", " ">> \o content>>
                      \o formatted_messages(Tail(messages))
             ELSE formatted_messages(Tail(messages))

\* variant of join_newline: a blank line between two lines
RECURSIVE join_newline_twice(_)
join_newline_twice(lines) ==
    IF lines = <<>> THEN <<>>
    ELSE IF Len(lines) = 1 THEN Head(lines)
    ELSE Head(lines) \o <<"\n", "\n">> \o join_newline_twice(Tail(lines))

\* "\n".join(lines)
RECURSIVE join_newline(_)
join_newline(lines) ==
    IF lines = <<>> THEN <<>>
    ELSE IF Len(lines) = 1 THEN Head(lines)
    ELSE Head(lines) \o <<"\n">> \o join_newline(Tail(lines))

_format_conversation(messages) == join_newline(formatted_messages(messages))

\* the fixed template around the conversation text; its two fixed parts are
\* one token each
_create_summarization_prompt(conversation_text) ==
    <<"[Please provide a concise summary ... Conversation:]", "\n">>
        \o conversation_text
        \o <<"\n", "[Please provide a clear, well-structured summary in 2-3 sentences.]">>

\* what client.chat does: it returns a text or raises; the executor may
\* raise on its own
Responses == { <<>>, <<" ">>, <<" ", "o", "k", "\n">> }
Outcomes ==
    [kind : {"text"}, text : Responses]
        \cup { [kind |-> "chat_error", text |-> <<>>],
               [kind |-> "executor_error", text |-> <<>>] }

\* _sync_ollama_call: the text of the response, None when client.chat raises
_sync_ollama_call(outcome) ==
    IF outcome.kind = "chat_error" THEN NoneVal ELSE Some(outcome.text)

\* _call_ollama: the executor's result, None when run_in_executor raises
_call_ollama(outcome) ==
    IF outcome.kind = "executor_error" THEN NoneVal
    ELSE _sync_ollama_call(outcome)

\* variant of summary_of_response: a blank response is returned as it is
summary_of_response_nostrip(response) ==
    IF ~response.none THEN Some(strip(response.s)) ELSE NoneVal

\* lines 37-40 of summarize_conversation
summary_of_response(response) ==
    IF Truthy(response) /\ strip(response.s) # <<>>
    THEN Some(strip(response.s))
    ELSE NoneVal

(* ------------------------------ the cache ------------------------------ *)
Channels == {"c1", "c2"}

\* lst[-n:] for n >= 0; Python reads -0 as 0, the whole list
slice_last(lst, n) ==
    IF n = 0 \/ n >= Len(lst) THEN lst
    ELSE SubSeq(lst, Len(lst) - n + 1, Len(lst))

\* variant of keep_recent: the oldest entries are kept
keep_recent_first(lst, n) ==
    IF Len(lst) > n THEN SubSeq(lst, 1, n) ELSE lst

\* lines 74-75 of cache_message
keep_recent(lst, n) ==
    IF Len(lst) > n THEN slice_last(lst, n) ELSE lst

\* the dictionary entry of lines 67-71
cache_entry(message) ==
    [author |-> message.author, content |-> message.content,
     timestamp |-> message.created_at]

\* variant of cache_message: one list for all channels that have an entry
cache_message_one_list(cache, message, n_max) ==
    LET channel_id == message.channel
    IN  [c \in DOMAIN cache \cup {channel_id} |->
            keep_recent(Append(IF c \in DOMAIN cache THEN cache[c] ELSE <<>>,
                               cache_entry(message)),
                        n_max)]

\* cache_message: the cache after recording message
cache_message(cache, message, n_max) ==
    LET channel_id == message.channel
        present == IF channel_id \in DOMAIN cache THEN cache[channel_id] ELSE <<>>
        appended == Append(present, cache_entry(message))
    IN  [c \in DOMAIN cache \cup {channel_id} |->
            IF c = channel_id THEN keep_recent(appended, n_max) ELSE cache[c]]

(* ------------------------------ commands ------------------------------- *)
\* Config.BOT_PREFIX
BOT_PREFIX == "!"

\* the names and aliases of the decorators of lines 99 and 150
SummarizeNames ==
    { <<"s","u","m","m","a","r","i","z","e">>, <<"s","u","m">>,
      <<"s","u","m","m","a","r","y">> }
SummarizeCacheNames ==
    { <<"s","u","m","m","a","r","i","z","e","_","c","a","c","h","e">>,
      <<"s","u","m","c","a","c","h","e">> }

\* the command a message content invokes
command_of(content) ==
    IF content = <<>> \/ Head(content) # BOT_PREFIX THEN "none"
    ELSE IF Tail(content) \in SummarizeNames THEN "summarize"
    ELSE IF Tail(content) \in SummarizeCacheNames THEN "summarize_cache"
    ELSE "none"

reversed(s) == [i \in 1..Len(s) |-> s[Len(s) - i + 1]]

\* channel.history(limit=limit): the newest limit messages, newest first
channel_history(hist, limit) ==
    LET n == IF limit < Len(hist) THEN limit ELSE Len(hist)
    IN  [i \in 1..n |-> hist[Len(hist) - i + 1]]

\* the loop of lines 83-89 over the page of history
RECURSIVE collect_messages(_)
collect_messages(page) ==
    IF page = <<>> THEN <<>>
    ELSE LET message == Head(page)
         IN  IF ~message.bot /\ strip(message.content) # <<>>
             THEN <<cache_entry(message)>> \o collect_messages(Tail(page))
             ELSE collect_messages(Tail(page))

get_recent_messages(hist, limit) ==
    reversed(collect_messages(channel_history(hist, limit)))

\* variant of summarize_begin: no test for the empty list
summarize_begin_nocheck(messages) ==
    [returned |-> FALSE, summary |-> NoneVal,
     prompt |-> _create_summarization_prompt(_format_conversation(messages))]

\* summarize_conversation up to the await of _call_ollama (lines 24-35):
\* either it has returned the notice, or an inference call is issued
summarize_begin(messages) ==
    IF messages = <<>>
    THEN [returned |-> TRUE, summary |-> Some(NO_MESSAGES_NOTICE), prompt |-> <<>>]
    ELSE [returned |-> FALSE, summary |-> NoneVal,
          prompt |-> _create_summarization_prompt(_format_conversation(messages))]

\* variant of reply_of: the failure message when no message was summarized
reply_of_empty_fails(summary, messages) ==
    IF Truthy(summary) /\ messages # <<>>
    THEN [kind |-> "embed", description |-> summary.s, analyzed |-> Len(messages)]
    ELSE [kind |-> "failed", description |-> <<>>, analyzed |-> 0]

\* variant of reply_of: an embed whatever summarize_conversation returned
reply_of_always_embed(summary, messages) ==
    [kind |-> "embed", description |-> summary.s, analyzed |-> Len(messages)]

\* the reply of lines 124-143 and 167-185
reply_of(summary, messages) ==
    IF Truthy(summary)
    THEN [kind |-> "embed", description |-> summary.s, analyzed |-> Len(messages)]
    ELSE [kind |-> "failed", description |-> <<>>, analyzed |-> 0]

NoReply == [kind |-> "none", description |-> <<>>, analyzed |-> 0]
TextReply(k) == [kind |-> k, description |-> <<>>, analyzed |-> 0]

\* what becomes of the reply a handler ends with, a loading_msg.edit or the
\* ctx.send of line 157, inside the try block (the send of the loading
\* message and the fetch of the history are taken to succeed):
\*   "ok"          the platform accepts it;
\*   "fails_once"  it raises, and the ctx.send of the except block (lines 148,
\*                 189) is accepted;
\*   "fails"       it raises and the ctx.send of the except block raises too:
\*                 the exception leaves the handler
Deliveries == {"ok", "fails_once", "fails"}

\* what the channel shows when the handler has ended: its reply, the generic
\* error message of the except block, or nothing
shown(t) ==
    IF t.delivery = "ok" THEN t.reply.kind
    ELSE IF t.delivery = "fails_once" THEN "error"
    ELSE "nothing"

\* an exception left the handler: the ctx.send of the except block raised
raised_out(t) == t.delivery = "fails"

(* ------------------------------- state --------------------------------- *)
VARIABLES
    MAX_MESSAGES_TO_SUMMARIZE,  \* Config.MAX_MESSAGES_TO_SUMMARIZE, read at start
    message_cache,              \* bot.message_cache: channel id -> list of entries
    history,                    \* the messages of each channel, as the platform holds them
    clock,                      \* number of message-arrived events so far
    event,                      \* the last message-arrived event and how far on_message went
    tasks,                      \* the command invocations in flight, each with its position
    finished,                   \* the command invocation that ended last, as it ended
    fn_messages, fn_max_length, \* arguments of a stand-alone truncate_conversation
    fn_result, fn_again,        \* its result, and the result of truncating that again
    fn_text, fn_sent,           \* _format_conversation of the arguments, and of the result
    fn_pc

vars == <<MAX_MESSAGES_TO_SUMMARIZE, message_cache, history, clock, event, tasks,
          finished, fn_messages, fn_max_length, fn_result, fn_again, fn_text,
          fn_sent, fn_pc>>

botvars == <<MAX_MESSAGES_TO_SUMMARIZE, message_cache, history, clock, event, tasks,
             finished>>
fnvars == <<fn_messages, fn_max_length, fn_result, fn_again, fn_text, fn_sent,
            fn_pc>>

\* no inference call has ended for the task
NoOutcome == [kind |-> "none", text |-> <<>>]

IdleTask ==
    [pc |-> "idle", command |-> "none", channel |-> "c1", invoked_at |-> 0,
     messages |-> <<>>, shares_cache |-> FALSE,
     summary |-> NoneVal, reply |-> NoReply, called |-> FALSE,
     outcome |-> NoOutcome, delivery |-> "none"]

NoEvent ==
    [channel |-> "c1", author |-> <<>>, bot |-> FALSE, content |-> <<>>,
     created_at |-> 0, cached |-> FALSE, processed |-> FALSE]

\* the authors and contents of the messages that arrive
Users ==
    { [display_name |-> <<"A">>, bot |-> FALSE],
      [display_name |-> <<"B","o","t">>, bot |-> TRUE] }

HumanContents ==
    { <<" ">>, <<"h","i">>, <<"!","s","u","m","m","a","r","i","z","e">>,
      <<"!","s","u","m","c","a","c","h","e">> }

BotContents == { <<"!","s","u","m","c","a","c","h","e">> }

ContentsOf(user) == IF user.bot THEN BotContents ELSE HumanContents

\* the contents of the messages that arrive in a behaviour without commands
PlainContents == { <<>>, <<" ">>, <<"h","i">> }

InitBot ==
    /\ MAX_MESSAGES_TO_SUMMARIZE \in 0..MaxNmax
    /\ message_cache = <<>>
    /\ history = [c \in Channels |-> <<>>]
    /\ clock = 0
    /\ event = NoEvent
    /\ tasks = {}
    /\ finished = IdleTask

InitFnIdle ==
    /\ fn_messages = <<>>
    /\ fn_max_length = 0
    /\ fn_result = <<>>
    /\ fn_again = <<>>
    /\ fn_text = <<>>
    /\ fn_sent = <<>>
    /\ fn_pc = "idle"

Init == InitBot /\ InitFnIdle

(* ------------------------------ on_message ----------------------------- *)
\* variant of list_is_argument: the argument itself is returned when nothing
\* was cut from it
list_is_argument_when_whole(found, result) == result = found

\* whether the list truncate_conversation returns is the list object it was
\* given: never, truncated_messages is a new list (line 130)
list_is_argument(found, result) == FALSE

\* the lists the invocations hold after the append of line 67 and the
\* assignment of line 75: an append is seen through every reference to the
\* cached list, and line 75 binds the cache entry to a new list
lists_after_record(ts, message, n_max) ==
    { IF t.shares_cache /\ t.channel = message.channel
      THEN LET appended == Append(t.messages, cache_entry(message))
           IN  [t EXCEPT !.messages = appended,
                         !.shares_cache = ~(Len(appended) > n_max)]
      ELSE t : t \in ts }

\* the command body up to its first await: ctx.send of line 109, or the
\* check of line 156 and the ctx.send of line 157 or 160
command_begin(command, message, cache) ==
    IF command = "summarize_cache"
         /\ (message.channel \notin DOMAIN cache \/ cache[message.channel] = <<>>)
    THEN [IdleTask EXCEPT !.pc = "done", !.command = command,
                          !.channel = message.channel,
                          !.invoked_at = message.created_at,
                          !.reply = TextReply("no_cached")]
    ELSE [IdleTask EXCEPT !.pc = "loading", !.command = command,
                          !.channel = message.channel,
                          !.invoked_at = message.created_at]

\* process_commands: invoke the command the message names, if any
process_commands(message, cache) ==
    LET command == command_of(message.content)
        begun == command_begin(command, message, cache)
        held == lists_after_record(tasks, message, MAX_MESSAGES_TO_SUMMARIZE)
    IN  IF command = "none" THEN tasks' = held /\ finished' = finished
        ELSE IF begun.pc = "done"
        THEN /\ \E discord \in Deliveries : finished' = [begun EXCEPT !.delivery = discord]
             /\ tasks' = held
        ELSE /\ Cardinality(tasks) < MaxTasks
             /\ tasks' = held \cup {begun}
             /\ finished' = finished

\* variant of OnMessage: no test of message.author.bot
OnMessage_nobotcheck(channel, user, content) ==
    LET message == [channel |-> channel, author |-> user.display_name,
                    bot |-> user.bot, content |-> content,
                    created_at |-> clock + 1]
    IN  /\ clock' = clock + 1
        /\ history' = [history EXCEPT ![channel] = Append(@, message)]
        /\ message_cache' =
               cache_message(message_cache, message, MAX_MESSAGES_TO_SUMMARIZE)
        /\ process_commands(message, message_cache')
        /\ event' = message @@ [cached |-> TRUE, processed |-> TRUE]
        /\ UNCHANGED MAX_MESSAGES_TO_SUMMARIZE
        /\ UNCHANGED fnvars

\* variant of OnMessage: no event is handled while an inference call runs
OnMessage_blocking(channel, user, content) ==
    LET message == [channel |-> channel, author |-> user.display_name,
                    bot |-> user.bot, content |-> content,
                    created_at |-> clock + 1]
    IN  /\ \A t \in tasks : t.pc # "inference"
        /\ clock' = clock + 1
        /\ history' = [history EXCEPT ![channel] = Append(@, message)]
        /\ IF message.bot
           THEN /\ event' = message @@ [cached |-> FALSE, processed |-> FALSE]
                /\ UNCHANGED <<message_cache, tasks, finished>>
           ELSE /\ message_cache' =
                       cache_message(message_cache, message, MAX_MESSAGES_TO_SUMMARIZE)
                /\ process_commands(message, message_cache')
                /\ event' = message @@ [cached |-> TRUE, processed |-> TRUE]
        /\ UNCHANGED MAX_MESSAGES_TO_SUMMARIZE
        /\ UNCHANGED fnvars

\* variant of OnMessage: the command is processed before the message is cached
OnMessage_commands_first(channel, user, content) ==
    LET message == [channel |-> channel, author |-> user.display_name,
                    bot |-> user.bot, content |-> content,
                    created_at |-> clock + 1]
    IN  /\ clock' = clock + 1
        /\ history' = [history EXCEPT ![channel] = Append(@, message)]
        /\ IF message.bot
           THEN /\ event' = message @@ [cached |-> FALSE, processed |-> FALSE]
                /\ UNCHANGED <<message_cache, tasks, finished>>
           ELSE /\ process_commands(message, message_cache)
                /\ message_cache' =
                       cache_message(message_cache, message, MAX_MESSAGES_TO_SUMMARIZE)
                /\ event' = message @@ [cached |-> TRUE, processed |-> TRUE]
        /\ UNCHANGED MAX_MESSAGES_TO_SUMMARIZE
        /\ UNCHANGED fnvars

\* on_message for one arriving message, lines 47-57
OnMessage(channel, user, content) ==
    LET message == [channel |-> channel, author |-> user.display_name,
                    bot |-> user.bot, content |-> content,
                    created_at |-> clock + 1]
    IN  /\ clock' = clock + 1
        /\ history' = [history EXCEPT ![channel] = Append(@, message)]
        /\ IF message.bot
           THEN /\ event' = message @@ [cached |-> FALSE, processed |-> FALSE]
                /\ UNCHANGED <<message_cache, tasks, finished>>
           ELSE /\ message_cache' =
                       cache_message(message_cache, message, MAX_MESSAGES_TO_SUMMARIZE)
                /\ process_commands(message, message_cache')
                /\ event' = message @@ [cached |-> TRUE, processed |-> TRUE]
        /\ UNCHANGED MAX_MESSAGES_TO_SUMMARIZE
        /\ UNCHANGED fnvars

(* --------------------------- command handlers -------------------------- *)
\* the prompt of the inference call a task has in flight: the one built
\* from its messages when the call was issued
prompt_in_flight(t) == summarize_begin(t.messages).prompt

\* the handler from truncate_conversation to the await inside
\* summarize_conversation, or to its reply when that returns at once
run_summary(t, found, from_cache) ==
    LET messages == truncate_conversation(found, MAX_MESSAGE_LENGTH)
        begun == summarize_begin(messages)
    IN  IF begun.returned
        THEN /\ \E discord \in Deliveries :
                   finished' = [t EXCEPT !.pc = "done",
                                         !.messages = messages,
                                         !.summary = begun.summary,
                                         !.reply = reply_of(begun.summary, messages),
                                         !.delivery = discord]
             /\ tasks' = tasks \ {t}
        ELSE /\ tasks' = (tasks \ {t}) \cup
                             {[t EXCEPT !.pc = "inference",
                                        !.messages = messages,
                                        !.shares_cache =
                                            from_cache /\ list_is_argument(found, messages),
                                        !.called = TRUE]}
             /\ finished' = finished

\* variant of SummarizeCachedRun: the cached list itself is truncated
SummarizeCachedRun_inplace(t) ==
    /\ t.pc = "loading"
    /\ t.command = "summarize_cache"
    /\ run_summary(t, message_cache[t.channel], TRUE)
    /\ message_cache' =
           [message_cache EXCEPT ![t.channel] =
                truncate_conversation(@, MAX_MESSAGE_LENGTH)]
    /\ UNCHANGED <<MAX_MESSAGES_TO_SUMMARIZE, history, clock, event>>
    /\ UNCHANGED fnvars

\* summarize_cached resumes after the ctx.send of line 160: lines 162-165
SummarizeCachedRun(t) ==
    /\ t.pc = "loading"
    /\ t.command = "summarize_cache"
    /\ run_summary(t, message_cache[t.channel], TRUE)
    /\ UNCHANGED <<MAX_MESSAGES_TO_SUMMARIZE, message_cache, history, clock, event>>
    /\ UNCHANGED fnvars

\* the summarize command resumes with the history it asked for: lines 112-122
SummarizeRun(t) ==
    /\ t.pc = "loading"
    /\ t.command = "summarize"
    /\ LET messages == get_recent_messages(history[t.channel], DEFAULT_LIMIT)
       IN  IF messages = <<>>
           THEN /\ \E discord \in Deliveries :
                      finished' = [t EXCEPT !.pc = "done",
                                            !.reply = TextReply("no_messages"),
                                            !.delivery = discord]
                /\ tasks' = tasks \ {t}
           ELSE run_summary(t, messages, FALSE)
    /\ UNCHANGED <<MAX_MESSAGES_TO_SUMMARIZE, message_cache, history, clock, event>>
    /\ UNCHANGED fnvars

\* the inference call ends with outcome; summarize_conversation returns
\* (lines 35-44) and the handler replies (lines 124-143, 167-185), or ends
\* in its except block when the reply raises
OllamaReturns(t, outcome) ==
    /\ t.pc = "inference"
    /\ \E discord \in Deliveries :
          LET summary == summary_of_response(_call_ollama(outcome))
          IN  /\ finished' = [t EXCEPT !.pc = "done",
                                        !.summary = summary,
                                        !.outcome = outcome,
                                        !.reply = reply_of(summary, t.messages),
                                        !.delivery = discord]
              /\ tasks' = tasks \ {t}
    /\ UNCHANGED <<MAX_MESSAGES_TO_SUMMARIZE, message_cache, history, clock, event>>
    /\ UNCHANGED fnvars

Next ==
    \/ /\ clock < MaxEvents
       /\ \E channel \in Channels, user \in Users :
             \E content \in ContentsOf(user) : OnMessage(channel, user, content)
    \/ \E t \in tasks : SummarizeCachedRun(t)
    \/ \E t \in tasks : SummarizeRun(t)
    \/ \E t \in tasks, outcome \in Outcomes : OllamaReturns(t, outcome)

Spec == Init /\ [][Next]_vars

(* ------------------- messages only, no command among them -------------- *)
InitCache ==
    /\ MAX_MESSAGES_TO_SUMMARIZE \in 0..MaxCacheNmax
    /\ message_cache = <<>>
    /\ history = [c \in Channels |-> <<>>]
    /\ clock = 0
    /\ event = NoEvent
    /\ tasks = {}
    /\ finished = IdleTask
    /\ InitFnIdle

NextCache ==
    /\ clock < MaxCacheEvents
    /\ \E channel \in Channels, user \in Users, content \in PlainContents :
          OnMessage(channel, user, content)

SpecCache == InitCache /\ [][NextCache]_vars

(* ------------- truncate_conversation applied on its own --------------- *)
\* the messages the lists are made of: serialized lengths 4, 5, 6 and 8
FnMessageSet ==
    { [author |-> <<"A">>, content |-> <<>>, timestamp |-> 0],
      [author |-> <<"A">>, content |-> <<" ">>, timestamp |-> 0],
      [author |-> <<"A">>, content |-> <<"h", "i">>, timestamp |-> 0],
      [author |-> <<"B", "o">>, content |-> <<" ", "x", " ">>, timestamp |-> 0] }

\* two messages that fit a large budget: A "hello", B "hi"
FnExample ==
    << [author |-> <<"A">>, content |-> <<"h", "e", "l", "l", "o">>, timestamp |-> 0],
       [author |-> <<"B">>, content |-> <<"h", "i">>, timestamp |-> 0] >>

RECURSIVE SeqsUpTo(_, _)
SeqsUpTo(S, n) ==
    IF n = 0 THEN { <<>> }
    ELSE LET shorter == SeqsUpTo(S, n - 1)
         IN  shorter \cup { Append(q, x) : q \in shorter, x \in S }

InitFn ==
    /\ MAX_MESSAGES_TO_SUMMARIZE = 0
    /\ message_cache = <<>>
    /\ history = [c \in Channels |-> <<>>]
    /\ clock = 0
    /\ event = NoEvent
    /\ tasks = {}
    /\ finished = IdleTask
    /\ \/ /\ fn_messages \in SeqsUpTo(FnMessageSet, MaxLen)
          /\ fn_max_length \in -1..MaxChars
       \/ /\ fn_messages = FnExample
          /\ fn_max_length = 1000
    /\ fn_result = <<>>
    /\ fn_again = <<>>
    /\ fn_text = <<>>
    /\ fn_sent = <<>>
    /\ fn_pc = "start"

\* truncate_conversation(messages, max_length)
FnTruncate ==
    /\ fn_pc = "start"
    /\ fn_result' = truncate_conversation(fn_messages, fn_max_length)
    /\ fn_pc' = "once"
    /\ UNCHANGED <<fn_messages, fn_max_length, fn_again, fn_text, fn_sent>>
    /\ UNCHANGED botvars

\* truncate_conversation of the result, with the same budget
FnTruncateAgain ==
    /\ fn_pc = "once"
    /\ fn_again' = truncate_conversation(fn_result, fn_max_length)
    /\ fn_pc' = "twice"
    /\ UNCHANGED <<fn_messages, fn_max_length, fn_result, fn_text, fn_sent>>
    /\ UNCHANGED botvars

\* _format_conversation(messages)
FnFormat ==
    /\ fn_pc = "twice"
    /\ fn_text' = _format_conversation(fn_messages)
    /\ fn_pc' = "formatted"
    /\ UNCHANGED <<fn_messages, fn_max_length, fn_result, fn_again, fn_sent>>
    /\ UNCHANGED botvars

\* _format_conversation of the truncated list, as summarize_conversation
\* does with the list the command handlers pass (lines 27-30)
FnFormatTruncated ==
    /\ fn_pc = "formatted"
    /\ fn_sent' = _format_conversation(fn_result)
    /\ fn_pc' = "sent"
    /\ UNCHANGED <<fn_messages, fn_max_length, fn_result, fn_again, fn_text>>
    /\ UNCHANGED botvars

NextFn == FnTruncate \/ FnTruncateAgain \/ FnFormat \/ FnFormatTruncated

SpecFn == InitFn /\ [][NextFn]_vars

(* ------------------------------ properties ----------------------------- *)
\* the cache of a channel; a channel with no entry has no cached message
CacheOf(c) == IF c \in DOMAIN message_cache THEN message_cache[c] ELSE <<>>

\* the last n elements of s, for 0 <= n <= Len(s)
LastN(s, n) == [i \in 1..n |-> s[Len(s) - n + i]]

Min(a, b) == IF a <= b THEN a ELSE b

\* every message that arrived in the channel is non-bot with non-empty content
AllQualifying(c) ==
    \A i \in 1..Len(history[c]) :
        ~history[c][i].bot /\ strip(history[c][i].content) # <<>>

RecordOf(message) ==
    [author |-> message.author, content |-> message.content,
     timestamp |-> message.created_at]

\* C1: with N_max >= 1, in a channel where only non-bot, non-empty messages
\* arrived, the cache holds at most N_max entries and is the last
\* min(k, N_max) of the k messages recorded so far, oldest first.
C1_CacheIsLastNmax ==
    MAX_MESSAGES_TO_SUMMARIZE >= 1 =>
        \A c \in Channels :
            AllQualifying(c) =>
                LET k == Len(history[c])
                    n == Min(k, MAX_MESSAGES_TO_SUMMARIZE)
                IN  /\ Len(CacheOf(c)) <= MAX_MESSAGES_TO_SUMMARIZE
                    /\ CacheOf(c) = [i \in 1..n |-> RecordOf(LastN(history[c], n)[i])]

\* C1 witness: more qualifying messages than N_max were recorded in a channel
C1_Witness ==
    \E c \in Channels :
        /\ MAX_MESSAGES_TO_SUMMARIZE >= 1
        /\ AllQualifying(c)
        /\ Len(history[c]) > MAX_MESSAGES_TO_SUMMARIZE
        /\ Len(CacheOf(c)) = MAX_MESSAGES_TO_SUMMARIZE

\* C2: handling a message-arrived event whose content is empty or
\* whitespace-only leaves the cache of every channel as it was.
C2_BlankNeverCached ==
    [][(clock' = clock + 1 /\ strip(event'.content) = <<>>)
          => message_cache' = message_cache]_vars

\* C3: handling a message-arrived event whose author is bot-flagged leaves
\* every cache as it was and starts no command: on_message returns before
\* cache_message and process_commands.
C3_BotMessageIgnored ==
    [][(clock' = clock + 1 /\ event'.bot)
          => /\ message_cache' = message_cache
             /\ tasks' = tasks
             /\ finished' = finished
             /\ ~event'.cached
             /\ ~event'.processed]_vars

\* C3 witness: a bot message naming a command arrived in a channel that has
\* cached messages
C3_Witness ==
    /\ clock > 0
    /\ event.bot
    /\ command_of(event.content) = "summarize_cache"
    /\ CacheOf(event.channel) # <<>>

\* C4 as stated: for every integer budget the result is a contiguous suffix
\* of the input whose total serialized length is <= the budget.
C4_SuffixWithinAnyBudget ==
    fn_pc # "start" =>
        /\ IsSuffix(fn_result, fn_messages)
        /\ SerializedLength(fn_result) <= fn_max_length

\* C4 amended: the result is a contiguous suffix of the input for every
\* budget, and its total serialized length is <= the budget when the budget
\* is >= 0; for a negative budget the result is empty.
C4_SuffixWithinBudget ==
    fn_pc # "start" =>
        /\ IsSuffix(fn_result, fn_messages)
        /\ fn_max_length >= 0 => SerializedLength(fn_result) <= fn_max_length
        /\ fn_max_length < 0 => fn_result = <<>>

\* C4 witness: a proper, non-empty suffix was returned
C4_Witness ==
    /\ fn_pc = "once"
    /\ fn_result # <<>>
    /\ Len(fn_result) < Len(fn_messages)
    /\ fn_result[Len(fn_result)] = fn_messages[Len(fn_messages)]

\* C5: the result is empty exactly when the input is empty or its most
\* recent message alone is longer than the budget; a budget <= 0 gives the
\* empty list.
C5_EmptyIff ==
    fn_pc # "start" =>
        /\ (fn_result = <<>>) <=>
               (\/ fn_messages = <<>>
                \/ msg_length(fn_messages[Len(fn_messages)]) > fn_max_length)
        /\ fn_max_length <= 0 => fn_result = <<>>

\* C5 witness: a non-empty input with a positive budget was truncated to
\* nothing
C5_Witness ==
    /\ fn_pc = "once"
    /\ fn_messages # <<>>
    /\ fn_max_length > 0
    /\ fn_result = <<>>

\* C6: truncating the result again with the same budget gives the result.
C6_Idempotent ==
    fn_pc = "twice" => fn_again = fn_result

\* C6 witness: a result of two or more messages, shorter than the input,
\* was truncated again
C6_Witness ==
    /\ fn_pc = "twice"
    /\ Len(fn_result) >= 2
    /\ Len(fn_result) < Len(fn_messages)
    /\ fn_result[1] # fn_result[2]

\* C7: summarize_conversation of the empty list returns the fixed notice,
\* not None, and issues no inference call: no call in flight carries an
\* empty list, and a command that summarized the empty list ended with the
\* notice and without a call.
C7_EmptyGivesNotice ==
    /\ \A t \in tasks : t.pc = "inference" => t.messages # <<>> /\ t.called
    /\ (/\ finished.pc = "done"
        /\ finished.reply.kind \in {"embed", "failed"}
        /\ finished.messages = <<>>)
           => /\ finished.summary = Some(NO_MESSAGES_NOTICE)
              /\ ~finished.called
              /\ finished.outcome = NoOutcome

\* C7 witness: a command summarized an empty list
C7_Witness ==
    /\ finished.pc = "done"
    /\ finished.messages = <<>>
    /\ finished.reply.kind = "embed"
    /\ finished.command = "summarize_cache"

\* C8: for a non-empty list, the result is the trimmed response when the
\* inference call returned a text that is non-empty after trimming, and
\* None when it returned a blank text or failed; never the empty string.
C8_TrimmedOrNone ==
    (finished.pc = "done" /\ finished.called) =>
        /\ finished.messages # <<>>
        /\ IF finished.outcome.kind = "text" /\ strip(finished.outcome.text) # <<>>
           THEN finished.summary = Some(strip(finished.outcome.text))
           ELSE finished.summary = NoneVal
        /\ finished.summary # Some(<<>>)

\* C8 witness: a response with surrounding whitespace was returned trimmed
C8_Witness ==
    /\ finished.pc = "done"
    /\ finished.called
    /\ finished.outcome.kind = "text"
    /\ finished.summary = Some(<<"o", "k">>)
    /\ finished.outcome.text # <<"o", "k">>

\* C9: a step of a summarization (the truncation and the start of
\* summarize_conversation, or the end of the inference call, whatever its
\* outcome) leaves every cache unchanged; a cache changes only in an
\* on_message step that reached cache_message.
C9_SummarizationKeepsCache ==
    [][/\ (\E t \in tasks : t \notin tasks')
             => message_cache' = message_cache
       /\ message_cache' # message_cache
             => (clock' = clock + 1 /\ event'.cached)]_vars

\* C9 witness: an inference call failed while the channel has cached messages
C9_Witness ==
    /\ finished.pc = "done"
    /\ finished.outcome.kind \in {"chat_error", "executor_error"}
    /\ finished.reply.kind = "failed"
    /\ CacheOf(finished.channel) # <<>>

\* a message of a non-bot author that names no command
Humans == {user \in Users : ~user.bot}

\* the most recent entry of the channel's cache is the message
RecordedLast(cache, message) ==
    /\ message.channel \in DOMAIN cache
    /\ cache[message.channel] # <<>>
    /\ cache[message.channel][Len(cache[message.channel])] = RecordOf(message)

InFlight == \E t \in tasks : t.pc = "inference"

\* C10: while an inference call is in flight, a message-arrived event can be
\* handled, and handling a non-bot message records it in its channel's
\* cache in that same step, with the call still in flight.
C10_IngestionNotBlocked ==
    /\ [](InFlight =>
            \A channel \in Channels, user \in Humans, content \in PlainContents :
                ENABLED OnMessage(channel, user, content))
    /\ [][(InFlight /\ clock' = clock + 1 /\ ~event'.bot)
             => /\ RecordedLast(message_cache', event')
                /\ \A t \in tasks : t.pc = "inference" => t \in tasks']_vars

\* C10 witness: a non-bot message was recorded after the call in flight began
C10_Witness ==
    \E t \in tasks :
        /\ t.pc = "inference"
        /\ \A i \in 1..Len(t.messages) : t.messages[i].timestamp < event.created_at
        /\ ~event.bot
        /\ strip(event.content) # <<>>
        /\ event.channel = t.channel
        /\ RecordedLast(message_cache, event)

\* C11: the list a summarize_cache command summarizes is fixed when the
\* command reads the cache: it is the truncation of the cache as it is in
\* that step, and no later step changes the list of a call in flight, hence
\* the prompt sent; the command ends with that same list, and an embed
\* counts its messages.
C11_SnapshotFixed ==
    [][\A t \in tasks :
          t.command = "summarize_cache" =>
              /\ (t.pc = "loading" /\ t \notin tasks') =>
                     \/ finished'.invoked_at = t.invoked_at
                     \/ \E u \in tasks' :
                            /\ u.invoked_at = t.invoked_at
                            /\ u.pc = "inference"
                            /\ u.messages =
                                   truncate_conversation(CacheOf(t.channel),
                                                         MAX_MESSAGE_LENGTH)
              /\ t.pc = "inference" =>
                     \/ t \in tasks'
                     \/ /\ finished'.invoked_at = t.invoked_at
                        /\ finished'.messages = t.messages
                        /\ finished'.called
                        /\ finished'.reply.kind = "embed" =>
                               finished'.reply.analyzed = Len(t.messages)]_vars

\* C11 witness: a summarize_cache command ended with an embed for the list
\* it read, after a later message had replaced that list in the cache
C11_Witness ==
    /\ finished.pc = "done"
    /\ finished.command = "summarize_cache"
    /\ finished.reply.kind = "embed"
    /\ finished.called
    /\ finished.reply.analyzed = Len(finished.messages)
    /\ CacheOf(finished.channel) # <<>>
    /\ \A i \in 1..Len(finished.messages) :
           finished.messages[i].timestamp <
               CacheOf(finished.channel)[Len(CacheOf(finished.channel))].timestamp
    /\ truncate_conversation(CacheOf(finished.channel), MAX_MESSAGE_LENGTH)
           # finished.messages


\* the messages _format_conversation keeps
KeptMessages(messages) ==
    SelectSeq(messages, LAMBDA msg : strip(msg.content) # <<>>)

\* "{author}: {content}" with the content trimmed
LineOf(msg) == msg.author \o <<":", " ">> \o strip(msg.content)

\* the number of characters before line i of the lines of kept, joined by
\* one newline each
RECURSIVE OffsetOf(_, _)
OffsetOf(kept, i) ==
    IF i = 1 THEN 0
    ELSE OffsetOf(kept, i - 1) + Len(LineOf(kept[i - 1])) + 1

\* text is the lines of the kept messages of messages, in order, with one
\* newline between two lines and none elsewhere
RendersKept(text, messages) ==
    LET kept == KeptMessages(messages)
        n == Len(kept)
    IN  /\ Len(text) = IF n = 0 THEN 0
                       ELSE OffsetOf(kept, n) + Len(LineOf(kept[n]))
        /\ \A i \in 1..n :
               /\ SubSeq(text, OffsetOf(kept, i) + 1,
                         OffsetOf(kept, i) + Len(LineOf(kept[i]))) = LineOf(kept[i])
               /\ i < n => text[OffsetOf(kept, i) + Len(LineOf(kept[i])) + 1] = "\n"

\* C12: _format_conversation renders exactly the messages whose trimmed
\* content is non-empty, each as "{author}: {content}", in input order,
\* joined by single newlines; truncate_conversation returns its input when
\* the total serialized length is <= maxChars; A "hello", B "hi" with 1000
\* gives both messages and "A: hello\nB: hi".
C12_FormatAndFit ==
    /\ fn_pc \in {"formatted", "sent"} => RendersKept(fn_text, fn_messages)
    /\ fn_pc = "sent" => RendersKept(fn_sent, fn_result)
    /\ (fn_pc # "start" /\ SerializedLength(fn_messages) <= fn_max_length)
           => fn_result = fn_messages
    /\ (fn_pc = "sent" /\ fn_messages = FnExample /\ fn_max_length = 1000)
           => /\ fn_result = FnExample
              /\ fn_sent = <<"A", ":", " ", "h", "e", "l", "l", "o", "\n",
                             "B", ":", " ", "h", "i">>

\* C12 witness: a list with a blank message between two others fit the
\* budget and was rendered as two lines
C12_Witness ==
    /\ fn_pc = "sent"
    /\ Len(fn_messages) = 3
    /\ fn_result = fn_messages
    /\ strip(fn_messages[2].content) = <<>>
    /\ Len(KeptMessages(fn_messages)) = 2
    /\ fn_text # <<>>
    /\ fn_sent = fn_text


\* C13: the result is the longest suffix that fits: when it is shorter than
\* the input, the message just before it would take the total serialized
\* length over the budget; no message before that one is in the result,
\* whatever its size.
C13_LongestSuffix ==
    fn_pc # "start" =>
        /\ IsSuffix(fn_result, fn_messages)
        /\ Len(fn_result) < Len(fn_messages) =>
               SerializedLength(fn_result)
                   + msg_length(fn_messages[Len(fn_messages) - Len(fn_result)])
                   > fn_max_length
        /\ \A k \in 0..Len(fn_messages) :
               k > Len(fn_result) =>
                   SerializedLength(LastN(fn_messages, k)) > fn_max_length

\* C13 witness: the walk stopped at a message that did not fit although the
\* message before that one would have fit in what was left of the budget
C13_Witness ==
    /\ fn_pc = "once"
    /\ Len(fn_messages) = 3
    /\ Len(fn_result) = 1
    /\ SerializedLength(fn_result) + msg_length(fn_messages[2]) > fn_max_length
    /\ SerializedLength(fn_result) + msg_length(fn_messages[1]) <= fn_max_length


\* C14: at every point where another handler can run, that is in every
\* state between two steps, the cache of every channel has length <= N_max.
C14_CacheWithinNmaxBetweenSteps ==
    \A c \in Channels : Len(CacheOf(c)) <= MAX_MESSAGES_TO_SUMMARIZE

\* C15: with N_max = 0 every record leaves the cache of its channel empty.
C15_ZeroKeepsCacheEmpty ==
    MAX_MESSAGES_TO_SUMMARIZE = 0 => \A c \in Channels : CacheOf(c) = <<>>


\* a command ended after summarize_conversation returned None
NoneReturned ==
    /\ finished.pc = "done"
    /\ finished.called
    /\ finished.summary = NoneVal

\* C16 as stated: when summarize_conversation returns None the handler
\* replies with the failure message, never with an embed, and no exception
\* leaves the handler.
C16_NoneNeverRaises ==
    NoneReturned =>
        /\ finished.reply.kind = "failed"
        /\ shown(finished) # "embed"
        /\ ~raised_out(finished)

\* C16 amended: when summarize_conversation returns None the handler asks
\* for the loading message to become the failure message and the channel
\* never shows an embed: it shows the failure message, or the generic error
\* message when that edit raised, or nothing when the send of the except
\* block raised too, the one case in which an exception leaves the handler;
\* in every case message and command events are handled afterwards.
C16_NoneGivesFailure ==
    /\ [](NoneReturned =>
            /\ finished.reply.kind = "failed"
            /\ shown(finished) \in {"failed", "error", "nothing"}
            /\ raised_out(finished) => shown(finished) = "nothing")
    /\ []((NoneReturned /\ Cardinality(tasks) < MaxTasks) =>
            \A channel \in Channels, user \in Humans, content \in HumanContents :
                ENABLED OnMessage(channel, user, content))

\* C16 witness: a command ended on None with both Discord calls raising, and
\* a command invoked after it is being handled
C16_Witness ==
    /\ NoneReturned
    /\ finished.reply.kind = "failed"
    /\ raised_out(finished)
    /\ \E t \in tasks : t.invoked_at > finished.invoked_at
    /\ event.processed


\* C17 as stated: for every message list and every integer budget, the text
\* formatted from the truncated list is no longer than the budget, and
\* shorter when the truncated list is non-empty.
C17_TextWithinAnyBudget ==
    fn_pc = "sent" =>
        /\ Len(fn_sent) <= fn_max_length
        /\ fn_result # <<>> => Len(fn_sent) < fn_max_length

\* C17 amended: the same for every budget >= 0; for a negative budget the
\* truncated list and the text are empty, of length 0 > budget.
C17_TextWithinBudget ==
    fn_pc = "sent" =>
        /\ fn_max_length >= 0 => Len(fn_sent) <= fn_max_length
        /\ fn_result # <<>> => Len(fn_sent) < fn_max_length
        /\ fn_max_length < 0 => fn_result = <<>> /\ fn_sent = <<>>

\* C17 witness: two messages fill the budget exactly, and the text is
\* shorter by the trailing newline and the whitespace trimmed
C17_Witness ==
    /\ fn_pc = "sent"
    /\ Len(fn_result) = 2
    /\ Len(fn_result) < Len(fn_messages)
    /\ SerializedLength(fn_result) = fn_max_length
    /\ fn_result[1].content # strip(fn_result[1].content)
    /\ fn_sent # <<>>
    /\ Len(fn_sent) < fn_max_length - 1


\* the messages a command finds when it resumes: the cached list (line 162)
\* or the channel's recent messages (line 112)
Available(t) ==
    IF t.command = "summarize_cache" THEN CacheOf(t.channel)
    ELSE get_recent_messages(history[t.channel], DEFAULT_LIMIT)

\* C18: when a command of either kind resumes, finds at least one message
\* and truncate_conversation returns the empty list, it ends in that step
\* without an inference call, and its reply is an embed with the fixed
\* notice and 'Messages analyzed: 0', not 'no messages found' and not a
\* failure message.
C18_EmptyTruncationGivesNotice ==
    [][\A t \in tasks :
          (/\ t.pc = "loading"
           /\ t \notin tasks'
           /\ Available(t) # <<>>
           /\ truncate_conversation(Available(t), MAX_MESSAGE_LENGTH) = <<>>)
              => /\ finished'.invoked_at = t.invoked_at
                 /\ finished'.pc = "done"
                 /\ ~finished'.called
                 /\ finished'.outcome = NoOutcome
                 /\ finished'.reply = [kind |-> "embed",
                                        description |-> NO_MESSAGES_NOTICE,
                                        analyzed |-> 0]
                 /\ \A u \in tasks' : u.invoked_at # t.invoked_at]_vars

\* C18 witness: a summarize command found messages in the channel, none of
\* them within the budget, and replied with the notice
C18_Witness ==
    /\ finished.pc = "done"
    /\ finished.command = "summarize"
    /\ get_recent_messages(history[finished.channel], DEFAULT_LIMIT) # <<>>
    /\ finished.messages = <<>>
    /\ ~finished.called
    /\ finished.reply = [kind |-> "embed", description |-> NO_MESSAGES_NOTICE,
                         analyzed |-> 0]


\* C19: with N_max >= 1, on_message records a non-bot message before it
\* processes it as a command and a cache that holds a record never becomes
\* empty, so the cache of the invoking channel is non-empty whenever a
\* summarize_cache command is running, and no command ends with the
\* 'No cached messages found' reply.
C19_CommandFindsCache ==
    /\ [](MAX_MESSAGES_TO_SUMMARIZE >= 1 =>
            /\ finished.reply.kind # "no_cached"
            /\ \A t \in tasks :
                   t.command = "summarize_cache" => CacheOf(t.channel) # <<>>)
    /\ [][MAX_MESSAGES_TO_SUMMARIZE >= 1 =>
             /\ \A c \in Channels :
                    (c \in DOMAIN message_cache /\ message_cache[c] # <<>>)
                        => (c \in DOMAIN message_cache' /\ message_cache'[c] # <<>>)
             /\ (clock' = clock + 1 /\ ~event'.bot /\ event'.processed)
                    => RecordedLast(message_cache', event')]_vars

\* C19 witness: the first message of a channel was a summarize_cache
\* command, and the command ran on the cache holding that message
C19_Witness ==
    /\ MAX_MESSAGES_TO_SUMMARIZE >= 1
    /\ finished.pc = "done"
    /\ finished.command = "summarize_cache"
    /\ finished.reply.kind = "embed"
    /\ Len(history[finished.channel]) = 1
    /\ Len(CacheOf(finished.channel)) = 1
    /\ command_of(CacheOf(finished.channel)[1].content) = "summarize_cache"


\* C20: recording a message of channel c changes the cache entry of c only:
\* every other channel keeps its entry, or keeps having none; an entry is
\* created only by the first record of its channel, and holds that record.
C20_ChannelsIsolated ==
    /\ [](\A c \in Channels :
            c \in DOMAIN message_cache <=>
                \E i \in 1..Len(history[c]) : ~history[c][i].bot)
    /\ [][clock' = clock + 1 =>
             /\ \A c \in Channels \ {event'.channel} :
                    /\ c \in DOMAIN message_cache' <=> c \in DOMAIN message_cache
                    /\ c \in DOMAIN message_cache =>
                           message_cache'[c] = message_cache[c]
             /\ DOMAIN message_cache' # DOMAIN message_cache =>
                    /\ event'.cached
                    /\ DOMAIN message_cache' =
                           DOMAIN message_cache \cup {event'.channel}
                    /\ message_cache'[event'.channel] = <<RecordOf(event')>>
                    /\ \A i \in 1..(Len(history'[event'.channel]) - 1) :
                           history'[event'.channel][i].bot]_vars

\* C20 witness: a message was recorded in one channel while the other
\* channel had an entry holding earlier, different messages
C20_Witness ==
    /\ clock >= 3
    /\ event.cached
    /\ DOMAIN message_cache = Channels
    /\ \A c \in Channels \ {event.channel} :
           /\ message_cache[c] # <<>>
           /\ message_cache[c] # message_cache[event.channel]
           /\ \A i \in 1..Len(message_cache[c]) :
                  message_cache[c][i].timestamp < event.created_at

====
